---- MODULE Spec2Model ----
(***************************************************************************)
(* apyb.py: Scanner (PLY lexer rules), track_tokens_filter,                *)
(* indentation_filter, filter, IndentLexer and the yacc grammar actions,   *)
(* modelled as one pull pipeline over a document given as a sequence of    *)
(* characters.                                                             *)
(***************************************************************************)
EXTENDS Integers, Sequences, FiniteSets, TLC

(***************************************************************************)
(* Python values.  A str is a sequence of one-character strings.           *)
(***************************************************************************)
None == [k |-> "None"]
Str(cs) == [k |-> "str", s |-> cs]
List(xs) == [k |-> "list", items |-> xs]

IsStr(v) == v.k = "str"
IsNone(v) == v.k = "None"

\* the character at 0-based position i of s, "" past the end
At(s, i) == IF i >= 0 /\ i < Len(s) THEN s[i + 1] ELSE ""

\* s[i:j] (0-based, j exclusive)
Slice(s, i, j) == SubSeq(s, i + 1, j)

(***************************************************************************)
(* Character classes of the token regular expressions.                     *)
(***************************************************************************)
BlankChars == {" ", "\t"}
SpaceChars == {" ", "\t", "\n", "\r", "\f"}
DigitChars == {"0", "1", "2", "3", "4", "5", "6", "7", "8", "9"}
TextExcluded == {"#", "-", "+", "\t", "\r", "\f", "\n", "(", ")", "[", "]", ","}

W_fixed_type == <<"f", "i", "x", "e", "d", "-", "t", "y", "p", "e">>
W_fixed == <<"f", "i", "x", "e", "d">>
W_embers == <<"e", "m", "b", "e", "r", "s">>
W_roperties == <<"r", "o", "p", "e", "r", "t", "i", "e", "s">>
W_string == <<"s", "t", "r", "i", "n", "g">>
W_number == <<"n", "u", "m", "b", "e", "r">>
W_boolean == <<"b", "o", "o", "l", "e", "a", "n">>
W_object == <<"o", "b", "j", "e", "c", "t">>
W_array == <<"a", "r", "r", "a", "y">>
W_enum == <<"e", "n", "u", "m">>
W_ata == <<"a", "t", "a">>
W_tructures == <<"t", "r", "u", "c", "t", "u", "r", "e", "s">>

\* length of the longest run of characters of class C in s from position i
RECURSIVE RunLen(_, _, _)
RunLen(s, i, C) == IF At(s, i) \in C THEN 1 + RunLen(s, i + 1, C) ELSE 0

\* length of the longest run of characters outside class C in s from position i
RECURSIVE RunLenNot(_, _, _)
RunLenNot(s, i, C) ==
    IF i < Len(s) /\ At(s, i) \notin C THEN 1 + RunLenNot(s, i + 1, C) ELSE 0

\* the literal word w stands in s at position i
Lit(s, i, w) == /\ i + Len(w) <= Len(s)
                /\ \A j \in 1..Len(w) : s[i + j] = w[j]

LitLen(s, i, w) == IF Lit(s, i, w) THEN Len(w) ELSE 0

(***************************************************************************)
(* The token rules' regular expressions: the length each matches at        *)
(* position i of s, 0 when it does not match.                              *)
(***************************************************************************)
\* r'\#+'
m_HEADER(s, i) == RunLen(s, i, {"#"})

\* r'[ \t]+'
m_WS(s, i) == RunLen(s, i, BlankChars)

\* r'\n+'
m_newline(s, i) == RunLen(s, i, {"\n"})

\* r'(\d+(\.\d*)?|\.\d+)([eE][-+]? \d+)?'
m_NUM(s, i) ==
    LET d1 == RunLen(s, i, DigitChars)
        mant == IF d1 > 0
                THEN IF At(s, i + d1) = "."
                     THEN d1 + 1 + RunLen(s, i + d1 + 1, DigitChars)
                     ELSE d1
                ELSE IF At(s, i) = "." /\ RunLen(s, i + 1, DigitChars) > 0
                     THEN 1 + RunLen(s, i + 1, DigitChars)
                     ELSE 0
        j == i + mant
        k == IF At(s, j + 1) \in {"-", "+"} THEN j + 2 ELSE j + 1
        ex == IF /\ At(s, j) \in {"e", "E"}
                 /\ At(s, k) = " "
                 /\ RunLen(s, k + 1, DigitChars) > 0
              THEN (k + 1 + RunLen(s, k + 1, DigitChars)) - j
              ELSE 0
    IN IF mant = 0 THEN 0 ELSE mant + ex

\* r'[M|m]ember[s]'
m_MEMBERS(s, i) ==
    IF At(s, i) \in {"M", "|", "m"} /\ Lit(s, i + 1, W_embers) THEN 1 + Len(W_embers) ELSE 0

\* r'[P|p]roperties'
m_PROPERTIES(s, i) ==
    IF At(s, i) \in {"P", "|", "p"} /\ Lit(s, i + 1, W_roperties) THEN 1 + Len(W_roperties) ELSE 0

\* r'[D|d]ata\s*[S|s]tructure[s]'
m_DATASTRUCTURES(s, i) ==
    LET k == i + 1 + Len(W_ata)
        j == k + RunLen(s, k, SpaceChars)
    IN IF /\ At(s, i) \in {"D", "|", "d"}
          /\ Lit(s, i + 1, W_ata)
          /\ At(s, j) \in {"S", "|", "s"}
          /\ Lit(s, j + 1, W_tructures)
       THEN (j + 1 + Len(W_tructures)) - i
       ELSE 0

\* r'([^#\-\+\t\r\f\v\n()\[\],]+)'
m_TEXT(s, i) == RunLenNot(s, i, TextExcluded)

\* r'\s*\-' and r'\s*\+'
m_DASH(s, i) ==
    LET w == RunLen(s, i, SpaceChars) IN IF At(s, i + w) = "-" THEN w + 1 ELSE 0

m_PLUS(s, i) ==
    LET w == RunLen(s, i, SpaceChars) IN IF At(s, i + w) = "+" THEN w + 1 ELSE 0

\* one character
m_Char(s, i, c) == IF At(s, i) = c THEN 1 ELSE 0

(***************************************************************************)
(* The rules in the order PLY tries them: function rules in the order of   *)
(* their definition in the file; the first rule that matches at the        *)
(* current position wins.                                                  *)
(***************************************************************************)
LexRules == <<"HEADER", "WS", "newline", "NUM", "FIXED_TYPE", "FIXED", "MEMBERS",
              "PROPERTIES", "STRING", "NUMBER", "BOOLEAN", "OBJECT", "ARRAY",
              "ENUM", "COMMA", "DATASTRUCTURES", "TEXT", "LPAR", "RPAR",
              "LBRAC", "RBRAC", "DASH", "PLUS">>

MatchLen(r, s, i) ==
    CASE r = "HEADER" -> m_HEADER(s, i)
      [] r = "WS" -> m_WS(s, i)
      [] r = "newline" -> m_newline(s, i)
      [] r = "NUM" -> m_NUM(s, i)
      [] r = "FIXED_TYPE" -> LitLen(s, i, W_fixed_type)
      [] r = "FIXED" -> LitLen(s, i, W_fixed)
      [] r = "MEMBERS" -> m_MEMBERS(s, i)
      [] r = "PROPERTIES" -> m_PROPERTIES(s, i)
      [] r = "STRING" -> LitLen(s, i, W_string)
      [] r = "NUMBER" -> LitLen(s, i, W_number)
      [] r = "BOOLEAN" -> LitLen(s, i, W_boolean)
      [] r = "OBJECT" -> LitLen(s, i, W_object)
      [] r = "ARRAY" -> LitLen(s, i, W_array)
      [] r = "ENUM" -> LitLen(s, i, W_enum)
      [] r = "COMMA" -> m_Char(s, i, ",")
      [] r = "DATASTRUCTURES" -> m_DATASTRUCTURES(s, i)
      [] r = "TEXT" -> m_TEXT(s, i)
      [] r = "LPAR" -> m_Char(s, i, "(")
      [] r = "RPAR" -> m_Char(s, i, ")")
      [] r = "LBRAC" -> m_Char(s, i, "[")
      [] r = "RBRAC" -> m_Char(s, i, "]")
      [] r = "DASH" -> m_DASH(s, i)
      [] r = "PLUS" -> m_PLUS(s, i)

\* the rule that matches at position i: "" at the end of the input,
\* "error" when no rule matches
RECURSIVE FirstRule(_, _, _)
FirstRule(s, i, n) ==
    IF n > Len(LexRules) THEN "error"
    ELSE IF MatchLen(LexRules[n], s, i) > 0 THEN LexRules[n]
    ELSE FirstRule(s, i, n + 1)

RuleAt(s, i) == IF i >= Len(s) THEN "" ELSE FirstRule(s, i, 1)

(***************************************************************************)
(* Tokens (lex.LexToken).  Synthesized tokens carry the value None.        *)
(***************************************************************************)
Token(type, value, lineno, lexpos) ==
    [type |-> type, value |-> value, lineno |-> lineno, lexpos |-> lexpos,
     at_line_start |-> FALSE]

NoToken == Token("None", None, 0, 0)

\* _new_token, INDENT, DEDENT
_new_token(type, lineno, lexpos) == Token(type, None, lineno, lexpos)
DEDENT(lineno, lexpos) == _new_token("DEDENT", lineno, lexpos)
INDENT(lineno, lexpos) == _new_token("INDENT", lineno, lexpos)

(***************************************************************************)
(* refract elements, as far as the grammar actions build and read them.    *)
(* cls is the Python class; apyb is the entry p_type_def stores in the     *)
(* element's __dict__ (None when there is none).                           *)
(***************************************************************************)
Metadata(id, description) ==
    [k |-> "Metadata", id |-> id, description |-> description]

Attributes(typeAttributes) ==
    [k |-> "Attributes", typeAttributes |-> typeAttributes]

Element(cls, element, meta, attributes, content) ==
    [k |-> "Element", cls |-> cls, element |-> element, meta |-> meta,
     attributes |-> attributes, content |-> content, apyb |-> None]

Member(key, value, meta, attributes) ==
    [k |-> "Member", key |-> key, value |-> value, meta |-> meta,
     attributes |-> attributes]

String(content) == Element("String", Str(W_string), None, None, content)
Number == Element("Number", Str(W_number), None, None, None)
Boolean == Element("Boolean", Str(W_boolean), None, None, None)
Array(content) == Element("Array", Str(W_array), None, None, content)
Object(content, meta, attributes) ==
    Element("Object", Str(W_object), meta, attributes, content)
Generic(element) == Element("Element", element, None, None, None)

IsElement(v) == v.k = "Element"
IsArray(v) == v.k = "Element" /\ v.cls = "Array"

\* str.strip()
RECURSIVE LStrip(_)
LStrip(cs) == IF cs # <<>> /\ Head(cs) \in SpaceChars THEN LStrip(Tail(cs)) ELSE cs

RECURSIVE RStrip(_)
RStrip(cs) ==
    IF cs # <<>> /\ cs[Len(cs)] \in SpaceChars
    THEN RStrip(SubSeq(cs, 1, Len(cs) - 1))
    ELSE cs

\* strip that strips nothing
strip_nothing(v) == v

strip(v) == Str(RStrip(LStrip(v.s)))

\* p[i].__dict__['apyb'] inside try/except (AttributeError, KeyError): the
\* attributes after the assignment was tried
TypeAttributes(v) ==
    IF IsElement(v) /\ ~IsNone(v.apyb) THEN Attributes(v.apyb) ELSE Attributes(None)

(***************************************************************************)
(* The grammar actions.  p is the production's slice: p[1..n] are the      *)
(* values of the right-hand side, len(p) = n + 1; each operator gives the  *)
(* value the action leaves in p[0].                                        *)
(***************************************************************************)
len(p) == Len(p) + 1

\* p_result that always takes p[1]
p_result_first(p) == Array(p[1])

p_result(p) ==
    IF len(p) > 3 THEN Array(p[2]) ELSE Array(p[1])

p_data_structs(p) == None

p_header_objects(p) ==
    IF len(p) > 2 THEN List(Append(p[1].items, p[2])) ELSE List(<<p[1]>>)

p_header_object(p) ==
    LET meta == Metadata(String(p[2]), None)
        attributes == TypeAttributes(p[3])
    IN IF len(p) = 8
       THEN Object(p[7], [meta EXCEPT !.description = String(p[5])], attributes)
       ELSE IF len(p) = 7
       THEN Object(p[6], [meta EXCEPT !.description = String(p[4])], attributes)
       ELSE IF len(p) > 5
       THEN Object(p[5], meta, attributes)
       ELSE IF ~IsStr(p[3])
       THEN None      \* p[3] gets meta and attributes; p[0] is not assigned
       ELSE Object(p[4], meta, attributes)

RECURSIVE Concat(_, _)
Concat(p, i) == IF i > Len(p) THEN <<>> ELSE p[i].s \o Concat(p, i + 1)

p_description(p) == Str(Concat(p, 1))

p_type_def(p) ==
    LET e == IF IsArray(p[2]) THEN p[2]
             ELSE IF p[2] = Str(W_number) THEN Number
             ELSE IF p[2] = Str(W_object) THEN Object(None, None, None)
             ELSE IF p[2] = Str(W_boolean) THEN Boolean
             ELSE IF p[2] = Str(W_string) THEN String(None)
             ELSE Generic(p[2])
    IN IF ~IsNone(p[3]) THEN [e EXCEPT !.apyb = List(<<p[3]>>)] ELSE e

p_array_def(p) ==
    IF len(p) > 2 THEN Array(List(<<Generic(p[3])>>)) ELSE Array(None)

\* p_type_spec that drops the modifier
p_type_spec_drops(p) == None

p_type_spec(p) == IF len(p) > 1 THEN p[2] ELSE None

\* '\n' in v
HasNewline(v) == IsStr(v) /\ \E i \in 1..Len(v.s) : v.s[i] = "\n"

\* p_object_itmes that appends an indented block to the list as a sibling
p_object_itmes_appends(p) ==
    IF len(p) < 4
    THEN IF HasNewline(p[2])
         THEN List(<<p[1]>>)
         ELSE List(Append(p[1].items, p[2]))
    ELSE IF IsStr(p[2])
         THEN p[3]
         ELSE List(Append(p[1].items, p[2]))

p_object_itmes(p) ==
    IF len(p) < 4
    THEN IF HasNewline(p[2])
         THEN List(<<p[1]>>)
         ELSE LET n == Len(p[1].items)
              IN List([p[1].items EXCEPT ![n] = [@ EXCEPT !.value = p[2]]])
    ELSE IF IsStr(p[2])
         THEN p[3]
         ELSE List(Append(p[1].items, p[2]))

p_members(p) == None

p_implicit_object(p) == Object(p[2], None, None)

p_object_line(p) ==
    IF len(p) < 4
    THEN Member(String(strip(p[2])), String(None), None, Attributes(None))
    ELSE LET attributes == TypeAttributes(p[3])
         IN IF p[3] = Str(<<"-">>)
            THEN Member(String(strip(p[2])), String(None),
                        Metadata(None, p[4]), attributes)
            ELSE IF len(p) > 5
            THEN Member(String(strip(p[2])), p[3],
                        Metadata(None, String(strip(p[5]))), attributes)
            ELSE Member(String(strip(p[2])), p[3], None, attributes)

(***************************************************************************)
(* The grammar: the productions of the p_ functions' docstrings in file    *)
(* order (production 0 is yacc's start production S' -> result), and the   *)
(* LALR(1) tables yacc builds from them (shift preferred in a              *)
(* shift/reduce conflict).  State n is entry n + 1 of each table.          *)
(***************************************************************************)
Productions ==
    << [lhs |-> "S'", rhs |-> <<"result">>],
       [lhs |-> "result", rhs |-> <<"header_objects", "ENDMARKER">>],
       [lhs |-> "result", rhs |-> <<"data_structs", "header_objects", "ENDMARKER">>],
       [lhs |-> "data_structs", rhs |-> <<"HEADER", "DATASTRUCTURES", "NEWLINE">>],
       [lhs |-> "header_objects", rhs |-> <<"header_objects", "header_object">>],
       [lhs |-> "header_objects", rhs |-> <<"header_object">>],
       [lhs |-> "header_object", rhs |-> <<"HEADER", "TEXT", "type_def", "NEWLINE", "object_items">>],
       [lhs |-> "header_object", rhs |-> <<"HEADER", "TEXT", "NEWLINE", "object_items">>],
       [lhs |-> "header_object", rhs |-> <<"HEADER", "TEXT", "NEWLINE", "description", "NEWLINE", "object_items">>],
       [lhs |-> "header_object", rhs |-> <<"HEADER", "TEXT", "type_def", "NEWLINE", "description", "NEWLINE", "object_items">>],
       [lhs |-> "header_object", rhs |-> <<"HEADER", "TEXT", "type_def", "NEWLINE">>],
       [lhs |-> "description", rhs |-> <<"TEXT", "NEWLINE", "TEXT">>],
       [lhs |-> "description", rhs |-> <<"description", "TEXT", "NEWLINE", "TEXT">>],
       [lhs |-> "type_def", rhs |-> <<"LPAR", "OBJECT", "type_spec", "RPAR">>],
       [lhs |-> "type_def", rhs |-> <<"LPAR", "NUMBER", "type_spec", "RPAR">>],
       [lhs |-> "type_def", rhs |-> <<"LPAR", "BOOLEAN", "type_spec", "RPAR">>],
       [lhs |-> "type_def", rhs |-> <<"LPAR", "STRING", "type_spec", "RPAR">>],
       [lhs |-> "type_def", rhs |-> <<"LPAR", "ENUM", "type_spec", "RPAR">>],
       [lhs |-> "type_def", rhs |-> <<"LPAR", "TEXT", "type_spec", "RPAR">>],
       [lhs |-> "type_def", rhs |-> <<"LPAR", "array_def", "type_spec", "RPAR">>],
       [lhs |-> "array_def", rhs |-> <<"ARRAY">>],
       [lhs |-> "array_def", rhs |-> <<"ARRAY", "LBRAC", "TEXT", "RBRAC">>],
       [lhs |-> "type_spec", rhs |-> <<"COMMA", "FIXED">>],
       [lhs |-> "type_spec", rhs |-> <<"COMMA", "FIXED_TYPE">>],
       [lhs |-> "type_spec", rhs |-> <<>>],
       [lhs |-> "object_items", rhs |-> <<"object_items", "object_line", "NEWLINE">>],
       [lhs |-> "object_items", rhs |-> <<"object_items", "implicit_object">>],
       [lhs |-> "object_items", rhs |-> <<"member_def", "NEWLINE", "object_items">>],
       [lhs |-> "object_items", rhs |-> <<"object_line", "NEWLINE">>],
       [lhs |-> "member_def", rhs |-> <<"HEADER", "MEMBERS">>],
       [lhs |-> "member_def", rhs |-> <<"HEADER", "PROPERTIES">>],
       [lhs |-> "implicit_object", rhs |-> <<"INDENT", "object_items", "DEDENT">>],
       [lhs |-> "object_line", rhs |-> <<"DASH", "TEXT">>],
       [lhs |-> "object_line", rhs |-> <<"DASH", "TEXT", "type_def">>],
       [lhs |-> "object_line", rhs |-> <<"DASH", "TEXT", "DASH", "TEXT">>],
       [lhs |-> "object_line", rhs |-> <<"DASH", "TEXT", "type_def", "DASH", "TEXT">>],
       [lhs |-> "object_line", rhs |-> <<"PLUS", "TEXT">>],
       [lhs |-> "object_line", rhs |-> <<"PLUS", "TEXT", "type_def">>],
       [lhs |-> "object_line", rhs |-> <<"PLUS", "TEXT", "DASH", "TEXT">>],
       [lhs |-> "object_line", rhs |-> <<"PLUS", "TEXT", "type_def", "DASH", "TEXT">>] >>

LRAction ==
  <<
    (*  0 *) ("HEADER" :> <<"shift", 4>>),
    (*  1 *) ("$end" :> <<"accept", 0>>),
    (*  2 *) ("ENDMARKER" :> <<"shift", 87>>) @@ ("HEADER" :> <<"shift", 84>>),
    (*  3 *) ("HEADER" :> <<"shift", 84>>),
    (*  4 *) ("DATASTRUCTURES" :> <<"shift", 6>>) @@ ("TEXT" :> <<"shift", 7>>),
    (*  5 *) ("ENDMARKER" :> <<"reduce", 5>>) @@ ("HEADER" :> <<"reduce", 5>>),
    (*  6 *) ("NEWLINE" :> <<"shift", 82>>),
    (*  7 *) ("LPAR" :> <<"shift", 10>>) @@ ("NEWLINE" :> <<"shift", 9>>),
    (*  8 *) ("NEWLINE" :> <<"shift", 77>>),
    (*  9 *) ("DASH" :> <<"shift", 45>>) @@ ("HEADER" :> <<"shift", 44>>) @@ ("PLUS" :> <<"shift", 46>>) @@ ("TEXT" :> <<"shift", 41>>),
    (* 10 *) ("ARRAY" :> <<"shift", 18>>) @@ ("BOOLEAN" :> <<"shift", 13>>) @@ ("ENUM" :> <<"shift", 15>>) @@ ("NUMBER" :> <<"shift", 12>>) @@ ("OBJECT" :> <<"shift", 11>>) @@ ("STRING" :> <<"shift", 14>>) @@ ("TEXT" :> <<"shift", 16>>),
    (* 11 *) ("COMMA" :> <<"shift", 23>>) @@ ("RPAR" :> <<"reduce", 24>>),
    (* 12 *) ("COMMA" :> <<"shift", 23>>) @@ ("RPAR" :> <<"reduce", 24>>),
    (* 13 *) ("COMMA" :> <<"shift", 23>>) @@ ("RPAR" :> <<"reduce", 24>>),
    (* 14 *) ("COMMA" :> <<"shift", 23>>) @@ ("RPAR" :> <<"reduce", 24>>),
    (* 15 *) ("COMMA" :> <<"shift", 23>>) @@ ("RPAR" :> <<"reduce", 24>>),
    (* 16 *) ("COMMA" :> <<"shift", 23>>) @@ ("RPAR" :> <<"reduce", 24>>),
    (* 17 *) ("COMMA" :> <<"shift", 23>>) @@ ("RPAR" :> <<"reduce", 24>>),
    (* 18 *) ("COMMA" :> <<"reduce", 20>>) @@ ("LBRAC" :> <<"shift", 19>>) @@ ("RPAR" :> <<"reduce", 20>>),
    (* 19 *) ("TEXT" :> <<"shift", 20>>),
    (* 20 *) ("RBRAC" :> <<"shift", 21>>),
    (* 21 *) ("COMMA" :> <<"reduce", 21>>) @@ ("RPAR" :> <<"reduce", 21>>),
    (* 22 *) ("RPAR" :> <<"shift", 26>>),
    (* 23 *) ("FIXED" :> <<"shift", 24>>) @@ ("FIXED_TYPE" :> <<"shift", 25>>),
    (* 24 *) ("RPAR" :> <<"reduce", 22>>),
    (* 25 *) ("RPAR" :> <<"reduce", 23>>),
    (* 26 *) ("DASH" :> <<"reduce", 19>>) @@ ("NEWLINE" :> <<"reduce", 19>>),
    (* 27 *) ("RPAR" :> <<"shift", 28>>),
    (* 28 *) ("DASH" :> <<"reduce", 18>>) @@ ("NEWLINE" :> <<"reduce", 18>>),
    (* 29 *) ("RPAR" :> <<"shift", 30>>),
    (* 30 *) ("DASH" :> <<"reduce", 17>>) @@ ("NEWLINE" :> <<"reduce", 17>>),
    (* 31 *) ("RPAR" :> <<"shift", 32>>),
    (* 32 *) ("DASH" :> <<"reduce", 16>>) @@ ("NEWLINE" :> <<"reduce", 16>>),
    (* 33 *) ("RPAR" :> <<"shift", 34>>),
    (* 34 *) ("DASH" :> <<"reduce", 15>>) @@ ("NEWLINE" :> <<"reduce", 15>>),
    (* 35 *) ("RPAR" :> <<"shift", 36>>),
    (* 36 *) ("DASH" :> <<"reduce", 14>>) @@ ("NEWLINE" :> <<"reduce", 14>>),
    (* 37 *) ("RPAR" :> <<"shift", 38>>),
    (* 38 *) ("DASH" :> <<"reduce", 13>>) @@ ("NEWLINE" :> <<"reduce", 13>>),
    (* 39 *) ("DASH" :> <<"shift", 45>>) @@ ("ENDMARKER" :> <<"reduce", 7>>) @@ ("HEADER" :> <<"reduce", 7>>) @@ ("INDENT" :> <<"shift", 66>>) @@ ("PLUS" :> <<"shift", 46>>),
    (* 40 *) ("NEWLINE" :> <<"shift", 72>>) @@ ("TEXT" :> <<"shift", 73>>),
    (* 41 *) ("NEWLINE" :> <<"shift", 70>>),
    (* 42 *) ("NEWLINE" :> <<"shift", 62>>),
    (* 43 *) ("NEWLINE" :> <<"shift", 61>>),
    (* 44 *) ("MEMBERS" :> <<"shift", 59>>) @@ ("PROPERTIES" :> <<"shift", 60>>),
    (* 45 *) ("TEXT" :> <<"shift", 53>>),
    (* 46 *) ("TEXT" :> <<"shift", 47>>),
    (* 47 *) ("DASH" :> <<"shift", 49>>) @@ ("LPAR" :> <<"shift", 10>>) @@ ("NEWLINE" :> <<"reduce", 36>>),
    (* 48 *) ("DASH" :> <<"shift", 51>>) @@ ("NEWLINE" :> <<"reduce", 37>>),
    (* 49 *) ("TEXT" :> <<"shift", 50>>),
    (* 50 *) ("NEWLINE" :> <<"reduce", 38>>),
    (* 51 *) ("TEXT" :> <<"shift", 52>>),
    (* 52 *) ("NEWLINE" :> <<"reduce", 39>>),
    (* 53 *) ("DASH" :> <<"shift", 55>>) @@ ("LPAR" :> <<"shift", 10>>) @@ ("NEWLINE" :> <<"reduce", 32>>),
    (* 54 *) ("DASH" :> <<"shift", 57>>) @@ ("NEWLINE" :> <<"reduce", 33>>),
    (* 55 *) ("TEXT" :> <<"shift", 56>>),
    (* 56 *) ("NEWLINE" :> <<"reduce", 34>>),
    (* 57 *) ("TEXT" :> <<"shift", 58>>),
    (* 58 *) ("NEWLINE" :> <<"reduce", 35>>),
    (* 59 *) ("NEWLINE" :> <<"reduce", 29>>),
    (* 60 *) ("NEWLINE" :> <<"reduce", 30>>),
    (* 61 *) ("DASH" :> <<"reduce", 28>>) @@ ("DEDENT" :> <<"reduce", 28>>) @@ ("ENDMARKER" :> <<"reduce", 28>>) @@ ("HEADER" :> <<"reduce", 28>>) @@ ("INDENT" :> <<"reduce", 28>>) @@ ("PLUS" :> <<"reduce", 28>>),
    (* 62 *) ("DASH" :> <<"shift", 45>>) @@ ("HEADER" :> <<"shift", 44>>) @@ ("PLUS" :> <<"shift", 46>>),
    (* 63 *) ("DASH" :> <<"shift", 45>>) @@ ("DEDENT" :> <<"reduce", 27>>) @@ ("ENDMARKER" :> <<"reduce", 27>>) @@ ("HEADER" :> <<"reduce", 27>>) @@ ("INDENT" :> <<"shift", 66>>) @@ ("PLUS" :> <<"shift", 46>>),
    (* 64 *) ("NEWLINE" :> <<"shift", 69>>),
    (* 65 *) ("DASH" :> <<"reduce", 26>>) @@ ("DEDENT" :> <<"reduce", 26>>) @@ ("ENDMARKER" :> <<"reduce", 26>>) @@ ("HEADER" :> <<"reduce", 26>>) @@ ("INDENT" :> <<"reduce", 26>>) @@ ("PLUS" :> <<"reduce", 26>>),
    (* 66 *) ("DASH" :> <<"shift", 45>>) @@ ("HEADER" :> <<"shift", 44>>) @@ ("PLUS" :> <<"shift", 46>>),
    (* 67 *) ("DASH" :> <<"shift", 45>>) @@ ("DEDENT" :> <<"shift", 68>>) @@ ("INDENT" :> <<"shift", 66>>) @@ ("PLUS" :> <<"shift", 46>>),
    (* 68 *) ("DASH" :> <<"reduce", 31>>) @@ ("DEDENT" :> <<"reduce", 31>>) @@ ("ENDMARKER" :> <<"reduce", 31>>) @@ ("HEADER" :> <<"reduce", 31>>) @@ ("INDENT" :> <<"reduce", 31>>) @@ ("PLUS" :> <<"reduce", 31>>),
    (* 69 *) ("DASH" :> <<"reduce", 25>>) @@ ("DEDENT" :> <<"reduce", 25>>) @@ ("ENDMARKER" :> <<"reduce", 25>>) @@ ("HEADER" :> <<"reduce", 25>>) @@ ("INDENT" :> <<"reduce", 25>>) @@ ("PLUS" :> <<"reduce", 25>>),
    (* 70 *) ("TEXT" :> <<"shift", 71>>),
    (* 71 *) ("NEWLINE" :> <<"reduce", 11>>) @@ ("TEXT" :> <<"reduce", 11>>),
    (* 72 *) ("DASH" :> <<"shift", 45>>) @@ ("HEADER" :> <<"shift", 44>>) @@ ("PLUS" :> <<"shift", 46>>),
    (* 73 *) ("NEWLINE" :> <<"shift", 74>>),
    (* 74 *) ("TEXT" :> <<"shift", 75>>),
    (* 75 *) ("NEWLINE" :> <<"reduce", 12>>) @@ ("TEXT" :> <<"reduce", 12>>),
    (* 76 *) ("DASH" :> <<"shift", 45>>) @@ ("ENDMARKER" :> <<"reduce", 8>>) @@ ("HEADER" :> <<"reduce", 8>>) @@ ("INDENT" :> <<"shift", 66>>) @@ ("PLUS" :> <<"shift", 46>>),
    (* 77 *) ("DASH" :> <<"shift", 45>>) @@ ("ENDMARKER" :> <<"reduce", 10>>) @@ ("HEADER" :> <<"shift", 44>>) @@ ("PLUS" :> <<"shift", 46>>) @@ ("TEXT" :> <<"shift", 41>>),
    (* 78 *) ("DASH" :> <<"shift", 45>>) @@ ("ENDMARKER" :> <<"reduce", 6>>) @@ ("HEADER" :> <<"reduce", 6>>) @@ ("INDENT" :> <<"shift", 66>>) @@ ("PLUS" :> <<"shift", 46>>),
    (* 79 *) ("NEWLINE" :> <<"shift", 80>>) @@ ("TEXT" :> <<"shift", 73>>),
    (* 80 *) ("DASH" :> <<"shift", 45>>) @@ ("HEADER" :> <<"shift", 44>>) @@ ("PLUS" :> <<"shift", 46>>),
    (* 81 *) ("DASH" :> <<"shift", 45>>) @@ ("ENDMARKER" :> <<"reduce", 9>>) @@ ("HEADER" :> <<"reduce", 9>>) @@ ("INDENT" :> <<"shift", 66>>) @@ ("PLUS" :> <<"shift", 46>>),
    (* 82 *) ("HEADER" :> <<"reduce", 3>>),
    (* 83 *) ("ENDMARKER" :> <<"shift", 85>>) @@ ("HEADER" :> <<"shift", 84>>),
    (* 84 *) ("TEXT" :> <<"shift", 7>>),
    (* 85 *) ("$end" :> <<"reduce", 2>>),
    (* 86 *) ("ENDMARKER" :> <<"reduce", 4>>) @@ ("HEADER" :> <<"reduce", 4>>),
    (* 87 *) ("$end" :> <<"reduce", 1>>)
  >>

LRGoto ==
  <<
    (*  0 *) ("data_structs" :> 3) @@ ("header_object" :> 5) @@ ("header_objects" :> 2) @@ ("result" :> 1),
    (*  1 *) <<>>,
    (*  2 *) ("header_object" :> 86),
    (*  3 *) ("header_object" :> 5) @@ ("header_objects" :> 83),
    (*  4 *) <<>>,
    (*  5 *) <<>>,
    (*  6 *) <<>>,
    (*  7 *) ("type_def" :> 8),
    (*  8 *) <<>>,
    (*  9 *) ("description" :> 40) @@ ("member_def" :> 42) @@ ("object_items" :> 39) @@ ("object_line" :> 43),
    (* 10 *) ("array_def" :> 17),
    (* 11 *) ("type_spec" :> 37),
    (* 12 *) ("type_spec" :> 35),
    (* 13 *) ("type_spec" :> 33),
    (* 14 *) ("type_spec" :> 31),
    (* 15 *) ("type_spec" :> 29),
    (* 16 *) ("type_spec" :> 27),
    (* 17 *) ("type_spec" :> 22),
    (* 18 *) <<>>,
    (* 19 *) <<>>,
    (* 20 *) <<>>,
    (* 21 *) <<>>,
    (* 22 *) <<>>,
    (* 23 *) <<>>,
    (* 24 *) <<>>,
    (* 25 *) <<>>,
    (* 26 *) <<>>,
    (* 27 *) <<>>,
    (* 28 *) <<>>,
    (* 29 *) <<>>,
    (* 30 *) <<>>,
    (* 31 *) <<>>,
    (* 32 *) <<>>,
    (* 33 *) <<>>,
    (* 34 *) <<>>,
    (* 35 *) <<>>,
    (* 36 *) <<>>,
    (* 37 *) <<>>,
    (* 38 *) <<>>,
    (* 39 *) ("implicit_object" :> 65) @@ ("object_line" :> 64),
    (* 40 *) <<>>,
    (* 41 *) <<>>,
    (* 42 *) <<>>,
    (* 43 *) <<>>,
    (* 44 *) <<>>,
    (* 45 *) <<>>,
    (* 46 *) <<>>,
    (* 47 *) ("type_def" :> 48),
    (* 48 *) <<>>,
    (* 49 *) <<>>,
    (* 50 *) <<>>,
    (* 51 *) <<>>,
    (* 52 *) <<>>,
    (* 53 *) ("type_def" :> 54),
    (* 54 *) <<>>,
    (* 55 *) <<>>,
    (* 56 *) <<>>,
    (* 57 *) <<>>,
    (* 58 *) <<>>,
    (* 59 *) <<>>,
    (* 60 *) <<>>,
    (* 61 *) <<>>,
    (* 62 *) ("member_def" :> 42) @@ ("object_items" :> 63) @@ ("object_line" :> 43),
    (* 63 *) ("implicit_object" :> 65) @@ ("object_line" :> 64),
    (* 64 *) <<>>,
    (* 65 *) <<>>,
    (* 66 *) ("member_def" :> 42) @@ ("object_items" :> 67) @@ ("object_line" :> 43),
    (* 67 *) ("implicit_object" :> 65) @@ ("object_line" :> 64),
    (* 68 *) <<>>,
    (* 69 *) <<>>,
    (* 70 *) <<>>,
    (* 71 *) <<>>,
    (* 72 *) ("member_def" :> 42) @@ ("object_items" :> 76) @@ ("object_line" :> 43),
    (* 73 *) <<>>,
    (* 74 *) <<>>,
    (* 75 *) <<>>,
    (* 76 *) ("implicit_object" :> 65) @@ ("object_line" :> 64),
    (* 77 *) ("description" :> 79) @@ ("member_def" :> 42) @@ ("object_items" :> 78) @@ ("object_line" :> 43),
    (* 78 *) ("implicit_object" :> 65) @@ ("object_line" :> 64),
    (* 79 *) <<>>,
    (* 80 *) ("member_def" :> 42) @@ ("object_items" :> 81) @@ ("object_line" :> 43),
    (* 81 *) ("implicit_object" :> 65) @@ ("object_line" :> 64),
    (* 82 *) <<>>,
    (* 83 *) ("header_object" :> 86),
    (* 84 *) <<>>,
    (* 85 *) <<>>,
    (* 86 *) <<>>,
    (* 87 *) <<>>
  >>

Production(n) == Productions[n + 1]

\* the function whose docstring holds production n, applied to the slice p
Action(n, p) ==
    LET lhs == Production(n).lhs
    IN CASE lhs = "result" -> p_result(p)
         [] lhs = "data_structs" -> p_data_structs(p)
         [] lhs = "header_objects" -> p_header_objects(p)
         [] lhs = "header_object" -> p_header_object(p)
         [] lhs = "description" -> p_description(p)
         [] lhs = "type_def" -> p_type_def(p)
         [] lhs = "array_def" -> p_array_def(p)
         [] lhs = "type_spec" -> p_type_spec(p)
         [] lhs = "object_items" -> p_object_itmes(p)
         [] lhs = "member_def" -> p_members(p)
         [] lhs = "implicit_object" -> p_implicit_object(p)
         [] lhs = "object_line" -> p_object_line(p)

NoAction == <<"error", 0>>

\* the parser's action in `state` on token type t
LRActionOn(state, t) ==
    IF t \in DOMAIN LRAction[state + 1] THEN LRAction[state + 1][t] ELSE NoAction

\* yacc's defaulted states: the only action is one reduction, taken without
\* reading a lookahead token
IsDefaulted(state) ==
    LET acts == LRAction[state + 1]
    IN /\ Cardinality(DOMAIN acts) = 1
       /\ \A t \in DOMAIN acts : acts[t][1] = "reduce"

DefaultAction(state) ==
    LET acts == LRAction[state + 1]
    IN acts[CHOOSE t \in DOMAIN acts : TRUE]

(***************************************************************************)
(* The state of one parse, as a record s:                                  *)
(*   content                  the document main() read                     *)
(*   lexdata, lexpos, lineno  the PLY lexer's input, position and line     *)
(*   paren_count              lexer.paren_count                            *)
(*   lexer_at_line_start      lexer.at_line_start                          *)
(*   tok                      the LexToken the lexer matched               *)
(*   at_line_start            track_tokens_filter's local                  *)
(*   levels, depth, token     indentation_filter's locals                  *)
(*   gen, gen_n               where the generators are suspended, and the  *)
(*                            DEDENTs the suspended loop still yields      *)
(*   ftoken                   filter's local `token`                       *)
(*   out                      the types of the tokens filter has yielded   *)
(*   statestack, symstack, lookahead, lookaheadstack, errorcount           *)
(*                            the locals of yacc's parse loop              *)
(*   printed                  what p_error has printed                     *)
(*   result                   what parse() returned                        *)
(*   pc                       where control is                             *)
(***************************************************************************)
EndToken == Token("$end", None, 0, 0)
ErrorToken == Token("error", None, 0, 0)

Sym(type, value) == [type |-> type, value |-> value]

InitState(doc) ==
    [content |-> doc, lexdata |-> <<>>, lexpos |-> 0, lineno |-> 1,
     paren_count |-> 0, lexer_at_line_start |-> FALSE, tok |-> NoToken,
     at_line_start |-> FALSE, levels |-> <<0>>, depth |-> 0, token |-> NoToken,
     gen |-> "start", gen_n |-> 0, ftoken |-> NoToken, out |-> <<>>,
     statestack |-> <<0>>, symstack |-> <<Sym("$end", None)>>,
     lookahead |-> NoToken, lookaheadstack |-> <<>>, errorcount |-> 0,
     printed |-> <<>>, result |-> None, pc |-> "main"]

\* main: apibParser.parse(input=content, lexer=IndentLexer()), which begins
\* with IndentLexer.input: paren_count = 0, lexer.input(s), a new filter
\* IndentLexer.input(doc): paren_count = 0, lexer.input(doc) (the text and
\* lexpos = 0; the lexer's lineno is left as it is) and a new filter
\* generator, whose locals (levels, depth, token) start afresh
IndentLexer_input(s, doc) ==
    [s EXCEPT !.paren_count = 0, !.lexdata = doc, !.lexpos = 0,
              !.levels = <<0>>, !.depth = 0, !.token = NoToken,
              !.ftoken = NoToken, !.gen = "start", !.gen_n = 0]

main(s) == [IndentLexer_input(s, s.content) EXCEPT !.pc = "parse"]

(***************************************************************************)
(* Scanner: one round of lexer.token() matches one rule at lexpos and      *)
(* calls its function, which returns the token or discards it.             *)
(***************************************************************************)
Rule(s) == RuleAt(s.lexdata, s.lexpos)

MatchEnd(s) == s.lexpos + MatchLen(Rule(s), s.lexdata, s.lexpos)

\* the token PLY hands to the rule's function
Matched(s) ==
    [s EXCEPT !.lexpos = MatchEnd(s),
              !.tok = Token(Rule(s), Str(Slice(s.lexdata, s.lexpos, MatchEnd(s))),
                            s.lineno, s.lexpos)]

\* `return t`, and falling off the end of the function
Return(s) == [s EXCEPT !.pc = "track"]
Discard(s) == [s EXCEPT !.tok = NoToken, !.pc = "lex"]

\* t_WS that does not look at the line-start flag
t_WS_anywhere(s) ==
    IF s.paren_count = 0 THEN Return(s) ELSE Discard(s)

t_WS(s) ==
    IF s.lexer_at_line_start /\ s.paren_count = 0 THEN Return(s) ELSE Discard(s)

\* t_newline that returns the token whatever the nesting depth
t_newline_always(s) ==
    Return([s EXCEPT !.lineno = @ + Len(s.tok.value.s), !.tok.type = "NEWLINE"])

t_newline(s) ==
    LET s1 == [s EXCEPT !.lineno = @ + Len(s.tok.value.s), !.tok.type = "NEWLINE"]
    IN IF s1.paren_count = 0 THEN Return(s1) ELSE Discard(s1)

t_LPAR(s) == Return([s EXCEPT !.paren_count = @ + 1])

t_RPAR(s) == Return([s EXCEPT !.paren_count = @ - 1])

t_LBRAC(s) == Return([s EXCEPT !.paren_count = @ + 1])

t_RBRAC(s) == Return([s EXCEPT !.paren_count = @ - 1])

\* t_HEADER, t_NUM, t_FIXED_TYPE, t_FIXED, t_MEMBERS, t_PROPERTIES, t_STRING,
\* t_NUMBER, t_BOOLEAN, t_OBJECT, t_ARRAY, t_ENUM, t_COMMA, t_DATASTRUCTURES,
\* t_TEXT, t_DASH, t_PLUS: `return t`
t_plain(s) == Return(s)

RuleFunction(r, s) ==
    CASE r = "WS" -> t_WS(s)
      [] r = "newline" -> t_newline(s)
      [] r = "LPAR" -> t_LPAR(s)
      [] r = "RPAR" -> t_RPAR(s)
      [] r = "LBRAC" -> t_LBRAC(s)
      [] r = "RBRAC" -> t_RBRAC(s)
      [] OTHER -> t_plain(s)

lexer_token(s) == RuleFunction(Rule(s), Matched(s))

\* no rule matches: raise SyntaxError
t_error(s) == [s EXCEPT !.pc = "SyntaxError"]

(***************************************************************************)
(* track_tokens_filter                                                     *)
(***************************************************************************)
\* the generator's first lines, run by the first next()
track_tokens_filter_start(s) ==
    [s EXCEPT !.lexer_at_line_start = TRUE, !.at_line_start = TRUE, !.pc = "lex"]

\* the line after `yield token`, run when the next token is asked for
track_tokens_filter_resume(s) ==
    [s EXCEPT !.lexer_at_line_start = s.at_line_start, !.pc = "lex"]

\* the loop body up to `yield token`
track_tokens_filter(s) ==
    LET t == [s.tok EXCEPT !.at_line_start = s.at_line_start]
    IN IF t.type = "NEWLINE"
       THEN [s EXCEPT !.tok = t, !.at_line_start = TRUE, !.pc = "indent"]
       ELSE IF t.type = "WS"
       THEN IF t.at_line_start
            THEN [s EXCEPT !.tok = t, !.at_line_start = TRUE, !.pc = "indent"]
            ELSE [s EXCEPT !.tok = t, !.pc = "AssertionError"]
       ELSE [s EXCEPT !.tok = t, !.at_line_start = FALSE, !.pc = "indent"]

(***************************************************************************)
(* indentation_filter and filter                                           *)
(***************************************************************************)
Top(levels) == levels[Len(levels)]

OnStack(levels, depth) == \E i \in 1..Len(levels) : levels[i] = depth

\* levels.index(depth), 0-based
Index(levels, depth) == (CHOOSE i \in 1..Len(levels) : levels[i] = depth) - 1

\* indentation_filter yields t, filter yields it on, and lexer.token() hands
\* it to the parser; the generators stay suspended at `at`
Yield(s, t, at, n) ==
    [s EXCEPT !.ftoken = t, !.out = Append(@, t.type), !.lookahead = t,
              !.gen = at, !.gen_n = n, !.pc = "parse"]

\* back_up that swallows the ValueError of levels.index and forwards the token
back_up_lenient(s) ==
    IF ~OnStack(s.levels, s.depth)
    THEN Yield(s, s.token, "token", 0)
    ELSE Yield(s, DEDENT(s.token.lineno, s.token.lexpos - s.depth), "dedent",
               (Len(s.levels) - (Index(s.levels, s.depth) + 1)) - 1)

\* "Back up; but only if it matches a previous level": raise
\* IndentationError, or yield the first DEDENT of range(i + 1, len(levels))
back_up(s) ==
    IF ~OnStack(s.levels, s.depth)
    THEN [s EXCEPT !.pc = "IndentationError"]
    ELSE Yield(s, DEDENT(s.token.lineno, s.token.lexpos - s.depth), "dedent",
               (Len(s.levels) - (Index(s.levels, s.depth) + 1)) - 1)

\* indentation_filter that leaves depth as it is on a NEWLINE
indentation_filter_keeps_depth(s) ==
    LET token == s.tok
        s1 == [s EXCEPT !.token = token]
    IN IF token.type = "WS"
       THEN IF s.depth = 0
            THEN track_tokens_filter_resume(
                     [s1 EXCEPT !.depth = Len(token.value.s)])
            ELSE [s1 EXCEPT !.pc = "AssertionError"]
       ELSE IF token.type = "NEWLINE"
       THEN Yield(s1, token, "token", 0)
       ELSE IF token.at_line_start
       THEN IF s.depth = Top(s.levels)
            THEN Yield(s1, token, "token", 0)
            ELSE IF s.depth > Top(s.levels)
            THEN Yield([s1 EXCEPT !.levels = Append(@, s.depth)],
                       INDENT(token.lineno, token.lexpos - s.depth), "indent", 0)
            ELSE back_up(s1)
       ELSE Yield(s1, token, "token", 0)

\* the loop body for one token of track_tokens_filter
indentation_filter(s) ==
    LET token == s.tok
        s1 == [s EXCEPT !.token = token]
    IN IF token.type = "WS"
       THEN IF s.depth = 0
            THEN track_tokens_filter_resume(
                     [s1 EXCEPT !.depth = Len(token.value.s)])
            ELSE [s1 EXCEPT !.pc = "AssertionError"]
       ELSE IF token.type = "NEWLINE"
       THEN Yield([s1 EXCEPT !.depth = 0], token, "token", 0)
       ELSE IF token.at_line_start
       THEN IF s.depth = Top(s.levels)
            THEN Yield(s1, token, "token", 0)
            ELSE IF s.depth > Top(s.levels)
            THEN Yield([s1 EXCEPT !.levels = Append(@, s.depth)],
                       INDENT(token.lineno, token.lexpos - s.depth), "indent", 0)
            ELSE back_up(s1)
       ELSE Yield(s1, token, "token", 0)

\* resumed after `yield INDENT`: `yield token`
indentation_filter_indented(s) == Yield(s, s.token, "token", 0)

\* indentation_filter_dedented without levels.pop()
indentation_filter_dedented_keeps(s) ==
    IF s.gen_n > 0
    THEN Yield(s, DEDENT(s.token.lineno, s.token.lexpos - s.depth), "dedent",
               s.gen_n - 1)
    ELSE Yield(s, s.token, "token", 0)

\* resumed after `yield DEDENT` in the loop: levels.pop(), then the next DEDENT
\* or `yield token`
indentation_filter_dedented(s) ==
    LET s1 == [s EXCEPT !.levels = SubSeq(@, 1, Len(@) - 1)]
    IN IF s.gen_n > 0
       THEN Yield(s1, DEDENT(s.token.lineno, s.token.lexpos - s.depth), "dedent",
                  s.gen_n - 1)
       ELSE Yield(s1, s.token, "token", 0)

\* filter, after indentation_filter is exhausted: the ENDMARKER
filter_endmarker(s) ==
    LET lineno == IF s.ftoken # NoToken THEN s.ftoken.lineno ELSE 1
        lexpos == IF s.ftoken # NoToken THEN s.ftoken.lexpos ELSE 0
    IN Yield(s, _new_token("ENDMARKER", lineno, lexpos), "endmarker", 0)

\* indentation_filter_end without the DEDENTs of the levels still open
indentation_filter_end_forgets(s) == filter_endmarker(s)

\* the lexer is exhausted: the lines after the loop
indentation_filter_end(s) ==
    IF Len(s.levels) > 1
    THEN Yield(s, DEDENT(s.token.lineno, s.token.lexpos), "final", Len(s.levels) - 2)
    ELSE filter_endmarker(s)

\* indentation_filter_finished that stops after the first of the last DEDENTs
indentation_filter_finished_early(s) == filter_endmarker(s)

\* resumed after a `yield DEDENT` of the lines after the loop
indentation_filter_finished(s) ==
    IF s.gen_n > 0
    THEN Yield(s, DEDENT(s.token.lineno, s.token.lexpos), "final", s.gen_n - 1)
    ELSE filter_endmarker(s)

\* IndentLexer.token when the stream is exhausted: None, yacc's $end
token_exhausted(s) ==
    [s EXCEPT !.lookahead = EndToken, !.gen = "exhausted", !.pc = "parse"]

\* IndentLexer.token: next(self.token_stream) resumes the generators
IndentLexer_token(s) ==
    CASE s.gen = "start" -> track_tokens_filter_start(s)
      [] s.gen = "token" -> track_tokens_filter_resume(s)
      [] s.gen = "indent" -> indentation_filter_indented(s)
      [] s.gen = "dedent" -> indentation_filter_dedented(s)
      [] s.gen = "final" -> indentation_filter_finished(s)
      [] OTHER -> token_exhausted(s)

(***************************************************************************)
(* The parse loop of yacc.                                                 *)
(***************************************************************************)
State(s) == s.statestack[Len(s.statestack)]

NeedsToken(s) == ~IsDefaulted(State(s)) /\ s.lookahead = NoToken

\* the loop asks the lexer for the lookahead token
yacc_token(s) == [s EXCEPT !.pc = "token"]

LRStep(s) ==
    IF IsDefaulted(State(s)) THEN DefaultAction(State(s))
    ELSE LRActionOn(State(s), s.lookahead.type)

yacc_shift(s) ==
    [s EXCEPT !.statestack = Append(@, LRStep(s)[2]),
              !.symstack = Append(@, Sym(s.lookahead.type, s.lookahead.value)),
              !.lookahead = NoToken,
              !.errorcount = IF @ > 0 THEN @ - 1 ELSE @]

yacc_reduce(s) ==
    LET n == LRStep(s)[2]
        plen == Len(Production(n).rhs)
        base == Len(s.symstack) - plen
        p == [i \in 1..plen |-> s.symstack[base + i].value]
        states == SubSeq(s.statestack, 1, Len(s.statestack) - plen)
        lhs == Production(n).lhs
    IN [s EXCEPT !.symstack = Append(SubSeq(@, 1, base), Sym(lhs, Action(n, p))),
                 !.statestack = Append(states, LRGoto[Top(states) + 1][lhs])]

yacc_accept(s) ==
    [s EXCEPT !.result = s.symstack[Len(s.symstack)].value, !.pc = "done"]

\* the error branch of the loop after p_error: yacc drops the token when the
\* stack is rolled back to the start state, gives up at the end of the
\* input, and otherwise makes `error` the lookahead and pops one state per
\* round
yacc_recover(s) ==
    LET s1 == [s EXCEPT !.errorcount = 3]     \* yacc's error_count
    IN IF Len(s.statestack) <= 1 /\ s.lookahead.type # "$end"
       THEN [s1 EXCEPT !.lookahead = NoToken, !.lookaheadstack = <<>>]
       ELSE IF s.lookahead.type = "$end"
       THEN [s1 EXCEPT !.result = None, !.pc = "done"]
       ELSE IF s.lookahead.type # "error"
       THEN [s1 EXCEPT !.lookaheadstack = Append(@, s.lookahead),
                       !.lookahead = ErrorToken]
       ELSE [s1 EXCEPT !.symstack = SubSeq(@, 1, Len(@) - 1),
                       !.statestack = SubSeq(@, 1, Len(@) - 1)]

\* p_error prints the token and returns; the loop goes on to recover
p_error(s) ==
    LET p == IF s.lookahead.type = "$end" THEN "None" ELSE s.lookahead.type
    IN yacc_recover([s EXCEPT !.printed = Append(@, p)])

(***************************************************************************)
(* Which handler runs next in state s, and the state it leaves.            *)
(***************************************************************************)
Handler(s) ==
    CASE s.pc = "main" -> "main"
      [] s.pc = "lex" ->
           IF Rule(s) = "" THEN "indentation_filter_end"
           ELSE IF Rule(s) = "error" THEN "t_error"
           ELSE "lexer_token"
      [] s.pc = "track" -> "track_tokens_filter"
      [] s.pc = "indent" -> "indentation_filter"
      [] s.pc = "token" -> "IndentLexer_token"
      [] s.pc = "parse" ->
           IF NeedsToken(s) THEN "yacc_token"
           ELSE IF LRStep(s)[1] = "shift" THEN "yacc_shift"
           ELSE IF LRStep(s)[1] = "reduce" THEN "yacc_reduce"
           ELSE IF LRStep(s)[1] = "accept" THEN "yacc_accept"
           ELSE IF s.errorcount = 0 THEN "p_error"
           ELSE "yacc_recover"
      [] OTHER -> "none"

Apply(h, s) ==
    CASE h = "main" -> main(s)
      [] h = "lexer_token" -> lexer_token(s)
      [] h = "t_error" -> t_error(s)
      [] h = "indentation_filter_end" -> indentation_filter_end(s)
      [] h = "track_tokens_filter" -> track_tokens_filter(s)
      [] h = "indentation_filter" -> indentation_filter(s)
      [] h = "IndentLexer_token" -> IndentLexer_token(s)
      [] h = "yacc_token" -> yacc_token(s)
      [] h = "yacc_shift" -> yacc_shift(s)
      [] h = "yacc_reduce" -> yacc_reduce(s)
      [] h = "yacc_accept" -> yacc_accept(s)
      [] h = "p_error" -> p_error(s)
      [] h = "yacc_recover" -> yacc_recover(s)

\* the parse run to its end: parse() has returned or an exception has left it
RECURSIVE Run(_)
Run(s) == IF Handler(s) = "none" THEN s ELSE Run(Apply(Handler(s), s))

\* the tokens a caller gets who calls IndentLexer.token() until it returns
\* None; an exception that leaves token() ends the sequence with its name
RECURSIVE Pull(_, _)
Pull(s, acc) ==
    IF s.pc = "parse"
    THEN IF s.gen = "exhausted" THEN acc
         ELSE Pull([s EXCEPT !.lookahead = NoToken, !.pc = "token"],
                   IF s.lookahead = NoToken THEN acc ELSE Append(acc, s.lookahead))
    ELSE IF s.pc \in {"lex", "track", "indent", "token"}
    THEN Pull(Apply(Handler(s), s), acc)
    ELSE Append(acc, Token(s.pc, None, 0, 0))

\* from the state in which indentation_filter holds a token: the state in
\* which that token has been handed to the caller, who has called
\* IndentLexer.token() again after every INDENT and DEDENT before it
RECURSIVE Forwarded(_)
Forwarded(s) ==
    IF s.pc = "parse"
    THEN IF s.gen \in {"indent", "dedent"}
         THEN Forwarded([s EXCEPT !.lookahead = NoToken, !.pc = "token"])
         ELSE s
    ELSE IF s.pc \in {"indent", "token"}
    THEN Forwarded(Apply(Handler(s), s))
    ELSE s

\* the tokens of doc from a lexer in state s on which input(doc) is called
TokensOf(s, doc) == Pull([IndentLexer_input(s, doc) EXCEPT !.lookahead = NoToken, !.pc = "parse"], <<>>)

(***************************************************************************)
(* The documents.                                                          *)
(***************************************************************************)
MaxItems == 3
MaxIndent == 2
MaxMembers == 2
MaxChunks == 2

T_hash == <<"#", " ">>
T_Foo == <<"F", "o", "o">>
T_Bar == <<"B", "a", "r">>
T_bar == <<"b", "a", "r">>
T_NL == <<"\n">>
T_DataStructures == <<"D", "a", "t", "a", " ", "S", "t", "r", "u", "c", "t", "u", "r", "e", "s">>

\* "# Data Structures\n"
MarkerLine == T_hash \o T_DataStructures \o T_NL

\* "# Foo (<type>)\n"
TypedHeader(type) == T_hash \o T_Foo \o <<" ", "(">> \o type \o <<")">> \o T_NL

\* "# Foo\n"
PlainHeader == T_hash \o T_Foo \o T_NL

\* "- bar\n" behind n blanks
RECURSIVE Blanks(_)
Blanks(n) == IF n = 0 THEN <<>> ELSE <<" ">> \o Blanks(n - 1)

BarLine(n) == Blanks(n) \o <<"-", " ">> \o T_bar \o T_NL

\* "- count (number) - the total\n"
CountLine == <<"-", " ", "c", "o", "u", "n", "t", " ", "(", "n", "u", "m", "b", "e", "r", ")", " ", "-", " ", "t", "h", "e", " ", "t", "o", "t", "a", "l", "\n">>

\* "- bar - text\n"
DashTextLine == <<"-", " ", "b", "a", "r", " ", "-", " ", "t", "e", "x", "t", "\n">>

\* "+ baz (Bar)\n"
PlusLine == <<"+", " ", "b", "a", "z", " ", "(", "B", "a", "r", ")", "\n">>

\* "array[Bar]"
T_arrayBar == W_array \o <<"[">> \o T_Bar \o <<"]">>

HeaderTypes == {W_object, W_number, W_boolean, W_string, W_enum, W_array,
                T_arrayBar, T_Bar}

MemberLines == {BarLine(0), CountLine, DashTextLine, PlusLine}

Chunks == { MarkerLine,
            TypedHeader(W_object) \o BarLine(0),
            TypedHeader(T_arrayBar),
            PlainHeader,
            PlainHeader \o BarLine(2),
            BarLine(0),
            <<"#", "#", " ">> \o <<"M", "e", "m", "b", "e", "r", "s", "\n">>,
            <<")", "(", "\n">>,
            <<"\r">> }

RECURSIVE Flatten(_)
Flatten(ss) == IF ss = <<>> THEN <<>> ELSE Head(ss) \o Flatten(Tail(ss))

SeqsUpTo(S, lo, hi) == UNION {[1..n -> S] : n \in lo..hi}

\* a header and up to MaxItems "- bar" lines, each indented by up to MaxIndent
IndentedDocuments ==
    {h \o Flatten([i \in DOMAIN ws |-> BarLine(ws[i])]) :
        h \in {TypedHeader(W_object), PlainHeader},
        ws \in SeqsUpTo(0..MaxIndent, 1, MaxItems)}

\* a header with a type annotation and up to MaxMembers member lines
TypedDocuments ==
    {TypedHeader(ty) \o Flatten(ms) :
        ty \in HeaderTypes, ms \in SeqsUpTo(MemberLines, 0, MaxMembers)}

\* up to MaxChunks pieces of text, well-formed or not
ChunkDocuments == {Flatten(cs) : cs \in SeqsUpTo(Chunks, 0, MaxChunks)}

\* "text\n"
TextLine == <<"t", "e", "x", "t", "\n">>

\* a header, up to MaxItems lines of free text and the first bullet
DescribedDocuments ==
    {h \o Flatten([i \in 1..k |-> TextLine]) \o BarLine(0) :
        h \in {TypedHeader(W_object), PlainHeader}, k \in 1..MaxItems}

\* "- bar (\n" and, behind w blanks, "number)\n"
WrappedLine(w) ==
    <<"-", " ">> \o T_bar \o <<" ", "(">> \o T_NL \o Blanks(w) \o W_number \o <<")">> \o T_NL

\* "- bar (array[\n" and, behind w blanks, "Bar])\n"
WrappedArrayLine(w) ==
    <<"-", " ">> \o T_bar \o <<" ", "(">> \o W_array \o <<"[">> \o T_NL
        \o Blanks(w) \o T_Bar \o <<"]", ")">> \o T_NL

\* a member line at any indentation and a member whose annotation wraps
\* across lines
WrappedDocuments ==
    {TypedHeader(W_object) \o BarLine(i) \o l :
        i \in 0..MaxIndent,
        l \in {WrappedLine(w) : w \in 0..MaxIndent}
                \cup {WrappedArrayLine(w) : w \in 0..MaxIndent}}

\* a line of w blanks
BlankLine(w) == Blanks(w) \o T_NL

\* two member lines at any indentation with a line of blanks between them
BlankLineDocuments ==
    {TypedHeader(W_object) \o BarLine(i) \o BlankLine(w) \o BarLine(j) :
        i \in 0..MaxIndent, j \in 0..MaxIndent, w \in 1..(MaxIndent + 1)}

\* "<type>", "<type>, fixed" and "<type>, fixed-type"
Annotations(type) ==
    {type, type \o <<",", " ">> \o W_fixed, type \o <<",", " ">> \o W_fixed_type}

\* "- bar (<annotation>)\n" and "- bar (<annotation>) - text\n"
AnnotatedLine(a) == <<"-", " ">> \o T_bar \o <<" ", "(">> \o a \o <<")">> \o T_NL

AnnotatedTextLine(a) ==
    <<"-", " ">> \o T_bar \o <<" ", "(">> \o a \o <<")", " ", "-", " ">> \o TextLine

\* a header and a member line, each with or without a type modifier
ModifierDocuments ==
    {TypedHeader(h) \o l :
        h \in Annotations(W_object),
        l \in {AnnotatedLine(a) : a \in Annotations(W_number)}
                \cup {AnnotatedTextLine(a) : a \in Annotations(W_number)}}

\* the documents fed to an IndentLexer that has been used before
ReuseDocuments == {TypedHeader(W_object) \o BarLine(0), PlainHeader \o BarLine(2)}

Documents ==
    IndentedDocuments \cup TypedDocuments \cup ChunkDocuments
        \cup DescribedDocuments \cup WrappedDocuments \cup BlankLineDocuments
        \cup ModifierDocuments

(***************************************************************************)
(* The state machine.                                                      *)
(***************************************************************************)
VARIABLES content, lexdata, lexpos, lineno, paren_count, lexer_at_line_start,
          tok, at_line_start, levels, depth, token, gen, gen_n, ftoken, out,
          statestack, symstack, lookahead, lookaheadstack, errorcount,
          printed, result, pc

vars == <<content, lexdata, lexpos, lineno, paren_count, lexer_at_line_start,
          tok, at_line_start, levels, depth, token, gen, gen_n, ftoken, out,
          statestack, symstack, lookahead, lookaheadstack, errorcount,
          printed, result, pc>>

\* the current state as a record
Cur ==
    [content |-> content, lexdata |-> lexdata, lexpos |-> lexpos,
     lineno |-> lineno, paren_count |-> paren_count,
     lexer_at_line_start |-> lexer_at_line_start, tok |-> tok,
     at_line_start |-> at_line_start, levels |-> levels, depth |-> depth,
     token |-> token, gen |-> gen, gen_n |-> gen_n, ftoken |-> ftoken,
     out |-> out, statestack |-> statestack, symstack |-> symstack,
     lookahead |-> lookahead, lookaheadstack |-> lookaheadstack,
     errorcount |-> errorcount, printed |-> printed, result |-> result,
     pc |-> pc]

Is(s) ==
    /\ content = s.content /\ lexdata = s.lexdata /\ lexpos = s.lexpos
    /\ lineno = s.lineno /\ paren_count = s.paren_count
    /\ lexer_at_line_start = s.lexer_at_line_start /\ tok = s.tok
    /\ at_line_start = s.at_line_start /\ levels = s.levels /\ depth = s.depth
    /\ token = s.token /\ gen = s.gen /\ gen_n = s.gen_n /\ ftoken = s.ftoken
    /\ out = s.out /\ statestack = s.statestack /\ symstack = s.symstack
    /\ lookahead = s.lookahead /\ lookaheadstack = s.lookaheadstack
    /\ errorcount = s.errorcount /\ printed = s.printed /\ result = s.result
    /\ pc = s.pc

Becomes(s) ==
    /\ content' = s.content /\ lexdata' = s.lexdata /\ lexpos' = s.lexpos
    /\ lineno' = s.lineno /\ paren_count' = s.paren_count
    /\ lexer_at_line_start' = s.lexer_at_line_start /\ tok' = s.tok
    /\ at_line_start' = s.at_line_start /\ levels' = s.levels /\ depth' = s.depth
    /\ token' = s.token /\ gen' = s.gen /\ gen_n' = s.gen_n /\ ftoken' = s.ftoken
    /\ out' = s.out /\ statestack' = s.statestack /\ symstack' = s.symstack
    /\ lookahead' = s.lookahead /\ lookaheadstack' = s.lookaheadstack
    /\ errorcount' = s.errorcount /\ printed' = s.printed /\ result' = s.result
    /\ pc' = s.pc

Init == \E doc \in Documents : Is(InitState(doc))

Main == Handler(Cur) = "main" /\ Becomes(main(Cur))
LexerToken == Handler(Cur) = "lexer_token" /\ Becomes(lexer_token(Cur))
TError == Handler(Cur) = "t_error" /\ Becomes(t_error(Cur))
IndentationFilterEnd ==
    Handler(Cur) = "indentation_filter_end" /\ Becomes(indentation_filter_end(Cur))
TrackTokensFilter ==
    Handler(Cur) = "track_tokens_filter" /\ Becomes(track_tokens_filter(Cur))
IndentationFilter ==
    Handler(Cur) = "indentation_filter" /\ Becomes(indentation_filter(Cur))
IndentLexerToken ==
    Handler(Cur) = "IndentLexer_token" /\ Becomes(IndentLexer_token(Cur))
YaccToken == Handler(Cur) = "yacc_token" /\ Becomes(yacc_token(Cur))
YaccShift == Handler(Cur) = "yacc_shift" /\ Becomes(yacc_shift(Cur))
YaccReduce == Handler(Cur) = "yacc_reduce" /\ Becomes(yacc_reduce(Cur))
YaccAccept == Handler(Cur) = "yacc_accept" /\ Becomes(yacc_accept(Cur))
PError == Handler(Cur) = "p_error" /\ Becomes(p_error(Cur))
YaccRecover == Handler(Cur) = "yacc_recover" /\ Becomes(yacc_recover(Cur))

Next ==
    \/ Main
    \/ LexerToken
    \/ TError
    \/ IndentationFilterEnd
    \/ TrackTokensFilter
    \/ IndentationFilter
    \/ IndentLexerToken
    \/ YaccToken
    \/ YaccShift
    \/ YaccReduce
    \/ YaccAccept
    \/ PError
    \/ YaccRecover

Spec == Init /\ [][Next]_vars

(***************************************************************************)
(* Properties.                                                             *)
(***************************************************************************)
Count(seq, type) == Cardinality({i \in 1..Len(seq) : seq[i] = type})

\* filter has yielded the ENDMARKER: the normalizer ran to completion
NormalizerCompleted == gen \in {"endmarker", "exhausted"}

\* parse() returned a Document and p_error was never called
Accepted(s) == s.pc = "done" /\ s.printed = <<>> /\ IsElement(s.result)

\* the root elements of the Document s holds
Roots(s) == s.result.content.items

T_count == <<"c", "o", "u", "n", "t">>
T_the_total == <<"t", "h", "e", " ", "t", "o", "t", "a", "l">>

(* C1: in every prefix of the normalizer's output the DEDENTs never        *)
(* outnumber the INDENTs, and when the normalizer has run to completion    *)
(* without raising the output holds as many INDENTs as DEDENTs.            *)
C1_IndentsMatchDedents ==
    /\ \A n \in 0..Len(out) :
          Count(SubSeq(out, 1, n), "DEDENT") <= Count(SubSeq(out, 1, n), "INDENT")
    /\ NormalizerCompleted => Count(out, "INDENT") = Count(out, "DEDENT")

C1_Witness ==
    /\ NormalizerCompleted
    /\ Count(out, "INDENT") = 2
    /\ Count(out, "DEDENT") = 2

\* indentation_filter holds the first real token of a line whose pending
\* width is below the top of the stack and is no level of the stack
InconsistentDedent ==
    /\ pc = "indent"
    /\ tok.type \notin {"WS", "NEWLINE"}
    /\ tok.at_line_start
    /\ depth < Top(levels)
    /\ \A i \in 1..Len(levels) : levels[i] # depth

(* C2: when the first real token of a line has a pending width below the   *)
(* top of the level stack that is no level of the stack, the normalizer    *)
(* raises IndentationError and forwards neither that token nor any later   *)
(* one.                                                                    *)
C2_InconsistentDedentRaises ==
    [][/\ InconsistentDedent => (pc' = "IndentationError" /\ out' = out)
       /\ pc = "IndentationError" => (pc' = pc /\ out' = out)]_vars

C2_Witness ==
    /\ pc = "IndentationError"
    /\ levels = <<0, 2>>
    /\ depth = 1
    /\ tok.type = "DASH"
    /\ Count(out, "NEWLINE") >= 2

\* the element kind the annotation `type` names
AnnotatedKind(type) ==
    CASE type = W_object -> Object(None, None, None)
      [] type = W_number -> Number
      [] type = W_boolean -> Boolean
      [] type = W_string -> String(None)
      [] type = W_array -> Array(None)
      [] type = T_arrayBar -> Array(List(<<Generic(Str(T_Bar))>>))
      [] OTHER -> Generic(Str(type))

(* C3: a header section that is only a header line with a type annotation  *)
(* and no items gives the Document exactly one root Element, of the        *)
(* annotated kind, whose id is the header name; for array[Bar] its content *)
(* is the one member-type name Bar.                                        *)
C3_HeaderOnlyGivesAnnotatedRoot ==
    \A ty \in HeaderTypes :
        (pc = "done" /\ content = TypedHeader(ty)) =>
            /\ IsElement(result)
            /\ Len(Roots(Cur)) = 1
            /\ IsElement(Roots(Cur)[1])
            /\ Roots(Cur)[1].cls = AnnotatedKind(ty).cls
            /\ Roots(Cur)[1].element = AnnotatedKind(ty).element
            /\ Roots(Cur)[1].content = AnnotatedKind(ty).content
            /\ Roots(Cur)[1].meta.id.content = Str(T_Foo)

\* n untyped members `bar`
BarMembers(n) ==
    List([i \in 1..n |->
            Member(String(Str(T_bar)), String(None), None, Attributes(None))])

(* C4: "# Foo (object)" and n >= 1 lines "- bar" give one root Object whose *)
(* id is exactly "Foo" and whose content is the n Members in source order, *)
(* each with the trimmed key and a String value.                           *)
C4_ObjectWithUntypedMembers ==
    \A n \in 1..MaxItems :
        (pc = "done"
           /\ content = TypedHeader(W_object) \o Flatten([i \in 1..n |-> BarLine(0)])) =>
            /\ Accepted(Cur)
            /\ Len(Roots(Cur)) = 1
            /\ Roots(Cur)[1].cls = "Object"
            /\ Roots(Cur)[1].content = BarMembers(n)
            /\ Roots(Cur)[1].meta.id.content = Str(T_Foo)

(* C5: a header with a type annotation followed by member lines gives a    *)
(* root Element of the annotated kind with the member lines as content.    *)
C5_AnnotatedKindWithMembers ==
    \A ty \in HeaderTypes, n \in 1..MaxMembers :
        (pc = "done"
           /\ content = TypedHeader(ty) \o Flatten([i \in 1..n |-> BarLine(0)])) =>
            /\ Accepted(Cur)
            /\ Len(Roots(Cur)) = 1
            /\ Roots(Cur)[1].cls = AnnotatedKind(ty).cls
            /\ Roots(Cur)[1].element = AnnotatedKind(ty).element
            /\ Roots(Cur)[1].content = BarMembers(n)

(* C6: a member line "- name (type) - trailing text" in an object block    *)
(* gives one Member whose key is the trimmed name, whose value is the kind *)
(* the annotation names and whose description is the trimmed trailing      *)
(* text: "count", Number, "the total".                                     *)
C6_TypedMemberWithDescription ==
    pc = "done" =>
        \A ty \in HeaderTypes, ms \in SeqsUpTo(MemberLines, 1, MaxMembers) :
            content = TypedHeader(ty) \o Flatten(ms) =>
                /\ Accepted(Cur)
                /\ Len(Roots(Cur)) = 1
                /\ Len(Roots(Cur)[1].content.items) = Len(ms)
                /\ \A i \in DOMAIN ms :
                      ms[i] = CountLine =>
                          LET m == Roots(Cur)[1].content.items[i]
                          IN /\ m.k = "Member"
                             /\ m.key = String(Str(T_count))
                             /\ m.value = Number
                             /\ m.meta = Metadata(None, String(Str(T_the_total)))

C6_Witness ==
    /\ pc = "done"
    /\ content = TypedHeader(W_object) \o BarLine(0) \o CountLine
    /\ Roots(Cur)[1].content.items[2].value = Number

\* the document begins with the "# Data Structures" line
HasMarker(doc) == Lit(doc, 0, MarkerLine)

(* C7: for header sections S that parse, S and S behind the line           *)
(* "# Data Structures" give the same Document; the marker gives no node.   *)
C7_MarkerChangesNothing ==
    pc = "done" =>
        /\ (~HasMarker(content) /\ Accepted(Cur)) =>
              LET b == Run(InitState(MarkerLine \o content))
              IN Accepted(b) /\ b.result = result
        /\ HasMarker(content) =>
              LET S == SubSeq(content, Len(MarkerLine) + 1, Len(content))
                  a == Run(InitState(S))
              IN (~HasMarker(S) /\ Accepted(a)) => (Accepted(Cur) /\ result = a.result)

C7_Witness ==
    /\ Accepted(Cur)
    /\ content = MarkerLine \o TypedHeader(W_object) \o BarLine(0)
    /\ Len(Roots(Cur)) = 1
    /\ Roots(Cur)[1].content = BarMembers(1)

(* C8: a header without a type annotation whose only content is one        *)
(* indented block (HEADER TEXT NEWLINE INDENT object-items DEDENT) is      *)
(* accepted and gives the block's Element relabelled with the header's     *)
(* name.                                                                   *)
C8_HeaderWithOnlyNestedBlock ==
    \A w \in 1..MaxIndent :
        (pc = "done" /\ content = PlainHeader \o BarLine(w)) =>
            /\ Accepted(Cur)
            /\ Len(Roots(Cur)) = 1
            /\ Roots(Cur)[1].cls = "Object"
            /\ Roots(Cur)[1].content = BarMembers(1)
            /\ Roots(Cur)[1].meta.id.content = Str(T_Foo)

\* a stage has failed: the Scanner or the Normalizer raised, or the Builder
\* met a token the grammar does not accept
Failed == pc \in {"SyntaxError", "IndentationError", "AssertionError"} \/ printed # <<>>

(* C9: a parse is all-or-nothing: once a stage has failed no later token   *)
(* is consumed and no Document is returned.                                *)
C9_AllOrNothing ==
    [][Failed => (out' = out /\ lexpos' = lexpos /\ ~IsElement(result'))]_vars

(* C10: an unmatched closing bracket makes the parse fail instead of       *)
(* leaving the Scanner running with a negative nesting depth: the Scanner  *)
(* matches no token while the depth is below 0.                            *)
C10_NoScanningBelowZero ==
    [][paren_count < 0 => lexpos' = lexpos]_vars

Opens == {"LPAR", "LBRAC"}
Closes == {"RPAR", "RBRAC"}

\* the nesting depth behind the tokens of seq
Nesting(seq) ==
    Cardinality({i \in 1..Len(seq) : seq[i] \in Opens})
        - Cardinality({i \in 1..Len(seq) : seq[i] \in Closes})

CallerHasControl ==
    pc \in {"parse", "done", "SyntaxError", "IndentationError", "AssertionError"}

(* C12: no state leaks between documents: whatever was fed to an            *)
(* IndentLexer before, and wherever that was abandoned, the tokens (kinds,  *)
(* text, positions) it gives for a document B after input(B) are those a    *)
(* freshly constructed IndentLexer gives for B.                             *)
C12_NoLeakBetweenDocuments ==
    CallerHasControl =>
        \A B \in ReuseDocuments : TokensOf(Cur, B) = TokensOf(InitState(B), B)

\* k lines "text" joined with newlines
RECURSIVE JoinedText(_)
JoinedText(k) ==
    IF k = 1 THEN SubSeq(TextLine, 1, Len(TextLine) - 1)
    ELSE TextLine \o JoinedText(k - 1)

(* C13: a header line, k >= 1 lines of free text and then the first bullet  *)
(* are accepted for every k, and the root Element's description is the k    *)
(* lines joined with newlines.                                              *)
C13_DescriptionOfAnyLength ==
    \A k \in 1..MaxItems, h \in {TypedHeader(W_object), PlainHeader} :
        (pc = "done"
           /\ content = h \o Flatten([i \in 1..k |-> TextLine]) \o BarLine(0)) =>
            /\ Accepted(Cur)
            /\ Len(Roots(Cur)) = 1
            /\ Roots(Cur)[1].meta.description = String(Str(JoinedText(k)))
            /\ Roots(Cur)[1].content = BarMembers(1)

\* the parser is about to reduce by the production lhs -> rhs
Reducing(lhs, rhs) ==
    /\ Handler(Cur) = "yacc_reduce"
    /\ Production(LRStep(Cur)[2]).lhs = lhs
    /\ Production(LRStep(Cur)[2]).rhs = rhs

\* the value of the n-th symbol from the top of the parser's stack
FromTop(stack, n) == stack[Len(stack) - n].value

(* C14: an indented block behind a member line is folded into that member:  *)
(* the block reduces to an anonymous Object holding the block's items, and  *)
(* reducing "object_items implicit_object" leaves the item list with the    *)
(* same number of Members in the same order, the last one with the block's  *)
(* Object as its value and otherwise as it was, every other Member          *)
(* unchanged and no sibling appended.                                       *)
C14_BlockFoldedIntoPrecedingMember ==
    [][/\ Reducing("implicit_object", <<"INDENT", "object_items", "DEDENT">>) =>
              FromTop(symstack', 0) = Object(FromTop(symstack, 1), None, None)
       /\ Reducing("object_items", <<"object_items", "implicit_object">>) =>
              LET before == FromTop(symstack, 1).items
                  block == FromTop(symstack, 0)
                  after == FromTop(symstack', 0).items
                  n == Len(before)
              IN /\ Len(after) = n
                 /\ \A i \in 1..(n - 1) : after[i] = before[i]
                 /\ after[n].value = block
                 /\ after[n] = [before[n] EXCEPT !.value = block]]_vars

C14_Witness ==
    /\ Accepted(Cur)
    /\ content = TypedHeader(W_object) \o BarLine(0) \o BarLine(2) \o BarLine(0)
    /\ Len(Roots(Cur)[1].content.items) = 2
    /\ Roots(Cur)[1].content.items[1].value = Object(BarMembers(1), None, None)
    /\ Roots(Cur)[1].content.items[2] = BarMembers(1).items[1]

\* n DEDENTs
Dedents(n) == [i \in 1..n |-> "DEDENT"]

\* the levels of the stack above the width w
Above(stack, w) == {i \in 1..Len(stack) : stack[i] > w}

(* C15: for the first real token of a line with pending width w and stack   *)
(* top t: if w = t the token is forwarded alone; if w > t exactly one       *)
(* INDENT comes right before it and w is the new top; if w < t and w is on  *)
(* the stack, one DEDENT for each level above w comes right before it and   *)
(* the top becomes w.  A token that is not the first real token of its      *)
(* line is forwarded alone and leaves the stack as it is.                   *)
C15_IndentDedentPerLine ==
    (pc = "indent" /\ tok.type \notin {"WS", "NEWLINE"}) =>
        LET e == Forwarded(Cur)
            w == depth
            t == Top(levels)
        IN IF tok.at_line_start
           THEN /\ w = t => (e.out = Append(out, tok.type) /\ e.levels = levels)
                /\ w > t => /\ e.out = out \o <<"INDENT", tok.type>>
                            /\ e.levels = Append(levels, w)
                /\ (w < t /\ OnStack(levels, w)) =>
                       /\ e.out = out \o Dedents(Cardinality(Above(levels, w)))
                                      \o <<tok.type>>
                       /\ e.levels = SubSeq(levels, 1, Index(levels, w) + 1)
                       /\ Top(e.levels) = w
           ELSE e.out = Append(out, tok.type) /\ e.levels = levels

C15_Witness ==
    /\ pc = "indent"
    /\ tok.type = "DASH"
    /\ tok.at_line_start
    /\ levels = <<0, 1, 2>>
    /\ depth = 0
    /\ Forwarded(Cur).out = out \o <<"DEDENT", "DEDENT", "DASH">>
    /\ Forwarded(Cur).levels = <<0>>

\* the level stack is not empty, its bottom is 0 and it grows strictly
WellFormedStack ==
    /\ Len(levels) >= 1
    /\ levels[1] = 0
    /\ \A i \in 1..(Len(levels) - 1) : levels[i] < levels[i + 1]

(* C16: in every state of the normalizer the level stack is non-empty, its  *)
(* bottom element is 0, which is never popped, and its elements increase    *)
(* strictly from bottom to top; when the normalizer has finished a run      *)
(* without error the stack is exactly [0].                                  *)
C16_StackReturnsToBase ==
    /\ WellFormedStack
    /\ NormalizerCompleted => levels = <<0>>

\* the tokens of out behind the last token that is neither DEDENT nor ENDMARKER
RECURSIVE Tail_(_)
Tail_(seq) ==
    IF seq = <<>> \/ seq[Len(seq)] \notin {"DEDENT", "ENDMARKER"} THEN <<>>
    ELSE Append(Tail_(SubSeq(seq, 1, Len(seq) - 1)), seq[Len(seq)])

(* C17: for every input that raises no error the normalized sequence ends   *)
(* with one DEDENT for each level still above the base when the Scanner is  *)
(* exhausted, then exactly one ENDMARKER, which is the last token;          *)
(* ENDMARKER appears nowhere else and nothing follows it; for the empty     *)
(* input the sequence is the single ENDMARKER.  The sequence is finite: it  *)
(* never holds more than three tokens for each character of the input,      *)
(* and the ENDMARKER.                                                       *)
C17_EndsWithDedentsAndEndmarker ==
    /\ \A i \in 1..Len(out) :
          out[i] = "ENDMARKER" => (i = Len(out) /\ NormalizerCompleted)
    /\ NormalizerCompleted =>
          /\ Tail_(out) = Append(Dedents(Len(levels) - 1), "ENDMARKER")
          /\ content = <<>> => out = <<"ENDMARKER">>
    /\ Len(out) <= 3 * Len(content) + 1

C17_Witness ==
    /\ NormalizerCompleted
    /\ levels = <<0, 1, 2>>
    /\ Tail_(out) = <<"DEDENT", "DEDENT", "ENDMARKER">>

\* the kinds of the tokens ts
Kinds(ts) == [i \in DOMAIN ts |-> ts[i].type]

\* seq with every run of NEWLINEs made one NEWLINE
RECURSIVE OneNewline(_)
OneNewline(seq) ==
    IF Len(seq) < 2 THEN seq
    ELSE IF seq[1] = "NEWLINE" /\ seq[2] = "NEWLINE" THEN OneNewline(Tail(seq))
    ELSE <<seq[1]>> \o OneNewline(Tail(seq))

(* C18: a line of nothing but whitespace and its newline never changes the  *)
(* level stack and causes no INDENT or DEDENT, whatever its width: its WS   *)
(* is not forwarded, its NEWLINE is, and the tokens of the lines before and *)
(* after it are those of the document with an empty line in its place, but  *)
(* for the NEWLINE forwarded.                                               *)
C18_BlankLineChangesNothing ==
    /\ (pc = "indent" /\ tok.type = "WS") =>
          LET e == indentation_filter(Cur)
          IN e.levels = levels /\ e.out = out
    /\ (pc = "indent" /\ tok.type = "NEWLINE" /\ depth > 0) =>
          LET e == indentation_filter(Cur)
          IN e.levels = levels /\ e.out = Append(out, "NEWLINE") /\ e.depth = 0
    /\ \A i \in 0..MaxIndent, j \in 0..MaxIndent, w \in 1..(MaxIndent + 1) :
          (NormalizerCompleted
             /\ content = TypedHeader(W_object) \o BarLine(i) \o BlankLine(w) \o BarLine(j)) =>
              LET empty == TypedHeader(W_object) \o BarLine(i) \o BlankLine(0) \o BarLine(j)
              IN OneNewline(out) = OneNewline(Kinds(TokensOf(InitState(empty), empty)))

C18_Witness ==
    /\ NormalizerCompleted
    /\ content = TypedHeader(W_object) \o BarLine(0) \o BlankLine(3) \o BarLine(0)
    /\ Count(out, "NEWLINE") = 4
    /\ Count(out, "INDENT") = 0
    /\ levels = <<0>>

\* the attributes an Element gets from the annotation a of the type `type`:
\* the modifier written behind the type, or none
Tags(type, a) ==
    IF a = type \o <<",", " ">> \o W_fixed THEN Attributes(List(<<Str(W_fixed)>>))
    ELSE IF a = type \o <<",", " ">> \o W_fixed_type
    THEN Attributes(List(<<Str(W_fixed_type)>>))
    ELSE Attributes(None)

C20_WhitespaceAssertionsHold ==
    /\ pc # "AssertionError"
    /\ pc = "lex" => lexer_at_line_start = at_line_start
    /\ (pc = "track" /\ tok.type = "WS") => at_line_start
    /\ (pc = "indent" /\ tok.type = "WS") => (tok.at_line_start /\ depth = 0)

C20_Witness ==
    /\ pc = "indent"
    /\ tok.type = "WS"
    /\ Len(tok.value.s) = 2
    /\ depth = 0
    /\ levels = <<0, 2>>

====
